---- MODULE Spec2Model ----
(***************************************************************************)
(* The web front end of the keyboard layout optimizer                      *)
(* (evolve_keyboard_layout_wasm/src/lib.rs): the steppable genetic         *)
(* LayoutOptimizer with its all-time-best record, and the blocking         *)
(* sa_optimize run with its observer callbacks.                            *)
(***************************************************************************)
EXTENDS Integers, Sequences, FiniteSets, TLC

VARIABLES
    all_time_best,   \* LayoutOptimizer.all_time_best: Option<(usize, Vec<usize>)>
    population,      \* simulator: the seed population, until the strategy replaces it
    evaluated,       \* simulator: the population it evaluated last, while it was the seed
    simCalls,        \* simulator: number of simulator.step() calls made on it
    history,         \* what each step() call got from the simulator, in call order
    returned,        \* what the last step() call returned to the caller
    parameters,      \* LayoutOptimizer.parameters: gen_optimization::Parameters
    echoed,          \* what the last parameters() call returned to the caller
    saPc,            \* sa_optimize: "idle", "running", "done" or "panicked"
    saParameters,    \* sa_optimize: the annealing parameters in use
    saIter,          \* annealing loop: index of the next iteration to observe
    saNewBest,       \* annealing loop: number of new-best states observed
    saObserved,      \* observer: the state observe_iter was last called with, and its outcome
    notifications,   \* the callback calls made towards the host, in call order
    saResult         \* what sa_optimize returned

gaVars == <<all_time_best, population, evaluated, simCalls, history, returned,
           parameters, echoed>>
saVars == <<saPc, saParameters, saIter, saNewBest, saObserved, notifications, saResult>>
vars == <<all_time_best, population, evaluated, simCalls, history, returned,
          parameters, echoed,
          saPc, saParameters, saIter, saNewBest, saObserved, notifications, saResult>>

---------------------------------------------------------------------------
(* Bounds of the model.                                                    *)

NumSlots == 2
MaxFitness == 1
PopulationSize == 2
MaxSteps == 3
MaxIters == 11
MaxCost == 1
MaxNewBest == 1
NewBestWindow == 2

(* Program constants.                                                      *)

ProgressEvery == 10
InitialProgress == 1

---------------------------------------------------------------------------
(* Values.                                                                 *)

None == [tag |-> "None"]
Some(x) == [tag |-> "Some", value |-> x]

Fitness == 0..MaxFitness

\* A genome is a permutation of the indices 0..NumSlots-1 of the permutable keys.
Genomes ==
    {g \in [1..NumSlots -> 0..(NumSlots - 1)] :
        \A i, j \in 1..NumSlots : g[i] = g[j] => i = j}

Alphabet == <<"a", "b", "c", "d", "e", "f">>

\* PermutationLayoutGenerator::generate_layout / generate_string: slot i of the
\* layout takes the permutable key the genome names for it.
GenerateLayout(genome) == [i \in 1..NumSlots |-> Alphabet[genome[i] + 1]]

AsText(layout) == layout

GenerateString(genome) == AsText(GenerateLayout(genome))

KeyIndex(c) == CHOOSE k \in 1..Len(Alphabet) : Alphabet[k] = c

RECURSIVE WeightedSum(_, _)
WeightedSum(layout, n) ==
    IF n = 0 THEN 0 ELSE n * KeyIndex(layout[n]) + WeightedSum(layout, n - 1)

\* Evaluator::evaluate_layout: a deterministic cost of the layout.
EvaluateLayout(layout) == [total_cost |-> WeightedSum(layout, Len(layout))]

\* Lines 270-278: the evaluation of the layout with its renderings attached.
LayoutEvaluationOf(layout) ==
    [total_cost |-> EvaluateLayout(layout).total_cost,
     details    |-> EvaluateLayout(layout),
     layout     |-> AsText(layout)]

---------------------------------------------------------------------------
(* The genetic simulator behind LayoutOptimizer.                           *)

Individuals == [genome : Genomes, fitness : Fitness]

Populations == [1..PopulationSize -> Individuals]

\* gen_optimization::Parameters, as parsed from the parameters text at line 219.
GaParameterSets == [population_size : {PopulationSize}, mutation_rate : {1, 2}]

DefaultGaParameters == [population_size |-> PopulationSize, mutation_rate |-> 1]

MaxOf(S) == CHOOSE m \in S : \A x \in S : x <= m

PopulationMax(pop) == MaxOf({pop[i].fitness : i \in DOMAIN pop})

\* The best solutions of an evaluated population: its members of highest fitness.
BestSolutions(pop) ==
    {pop[i] : i \in {j \in DOMAIN pop : pop[j].fitness = PopulationMax(pop)}}

\* What one simulator.step() can report: the best solution of the generation it
\* evaluated, with Intermediate or Final, or an error.  The first generation
\* evaluates the seed population; the later ones evaluate what the strategy bred.
GenerationBests == IF population # <<>> THEN BestSolutions(population) ELSE Individuals

SimResults ==
    {[tag |-> "Intermediate", best_solution |-> b] : b \in GenerationBests}
        \cup {[tag |-> "Final"], [tag |-> "Err"]}

\* One step of the simulator: it processes one generation and reports `result`,
\* one of SimResults.
SimulatorStep(result) ==
    /\ simCalls' = simCalls + 1
    /\ evaluated' = IF result.tag = "Err" THEN <<>> ELSE population
    /\ population' = <<>>

---------------------------------------------------------------------------
(* LayoutOptimizer.                                                        *)

\* LayoutOptimizer::new, lines 223-239: the simulator holds the seed population
\* of init_optimization, the best record is empty, no step has been made.
NewLayoutOptimizer ==
    /\ parameters \in GaParameterSets
    /\ echoed = None
    /\ population \in Populations
    /\ Len(population) = parameters.population_size
    /\ evaluated = <<>>
    /\ simCalls = 0
    /\ all_time_best = None
    /\ history = <<>>
    /\ returned = [tag |-> "NoCall"]

\* No LayoutOptimizer has been constructed.
NoLayoutOptimizer ==
    /\ parameters = None
    /\ echoed = None
    /\ population = <<>>
    /\ evaluated = <<>>
    /\ simCalls = 0
    /\ all_time_best = None
    /\ history = <<>>
    /\ returned = [tag |-> "NoCall"]

\* Variants of IsBetter: the comparison turned around, and the comparison that
\* also lets an equal fitness through.
IsWorse(fitness, king) == fitness < king[1]

IsBetterOrEqual(fitness, king) == fitness >= king[1]

\* Line 254: best_solution.solution.fitness > king.0
IsBetter(fitness, king) == fitness > king[1]

\* Variant of Offer: the first record is stored without the solution's fitness.
OfferWithoutFirstFitness(best_solution, held) ==
    IF held # None
    THEN IF IsBetter(best_solution.fitness, held.value)
         THEN Some(<<best_solution.fitness, best_solution.genome>>)
         ELSE held
    ELSE Some(<<0, best_solution.genome>>)

\* Lines 253-265: the update of the best record by the generation's best.
Offer(best_solution, held) ==
    IF held # None
    THEN IF IsBetter(best_solution.fitness, held.value)
         THEN Some(<<best_solution.fitness, best_solution.genome>>)
         ELSE held
    ELSE Some(<<best_solution.fitness, best_solution.genome>>)

\* Variant of ReportedGenome: the layout is generated from the generation's best.
ReportedGenomeOfGeneration(best_solution, record) == best_solution.genome

\* Line 269: the permutation the returned layout is generated from.
ReportedGenome(best_solution, record) == record.value[2]

\* Lines 251-281: the Intermediate arm.
OnIntermediate(step) ==
    /\ all_time_best' = Offer(step.best_solution, all_time_best)
    /\ returned' =
          [tag   |-> "Ok",
           value |-> Some(LayoutEvaluationOf(GenerateLayout(
                         ReportedGenome(step.best_solution, all_time_best'))))]

\* Variants of OnFinal: the record is taken out of the optimizer to be returned,
\* and the record's layout is returned instead of None.
OnFinalTakesBest ==
    /\ all_time_best' = None
    /\ returned' = [tag |-> "Ok", value |-> None]

OnFinalReportsBest ==
    /\ all_time_best' = all_time_best
    /\ returned' =
          IF all_time_best = None
          THEN [tag |-> "Ok", value |-> None]
          ELSE [tag   |-> "Ok",
                value |-> Some(LayoutEvaluationOf(GenerateLayout(all_time_best.value[2])))]

\* Lines 282-285: the Final arm.
OnFinal ==
    /\ all_time_best' = all_time_best
    /\ returned' = [tag |-> "Ok", value |-> None]

\* Variant of OnErr: the failure drops the record.
OnErrDropsBest ==
    /\ all_time_best' = None
    /\ returned' = [tag |-> "Err", value |-> "Error in optimization"]

\* Lines 286-289: the Err arm.
OnErr ==
    /\ all_time_best' = all_time_best
    /\ returned' = [tag |-> "Err", value |-> "Error in optimization"]

\* Lines 250-290: the match on the simulator's result.
Match(result) ==
    CASE result.tag = "Intermediate" -> OnIntermediate(result)
      [] result.tag = "Final" -> OnFinal
      [] result.tag = "Err" -> OnErr

\* Variant of Step: the simulator is stepped twice in one call.
StepTwice ==
    /\ Len(history) < MaxSteps
    /\ \E result \in SimResults :
          /\ simCalls' = simCalls + 2
          /\ evaluated' = <<>>
          /\ population' = <<>>
          /\ history' = Append(history, result)
          /\ Match(result)
    /\ UNCHANGED <<parameters, echoed>>
    /\ UNCHANGED saVars

\* LayoutOptimizer::step, lines 246-291.
Step ==
    /\ Len(history) < MaxSteps
    /\ \E result \in SimResults :
          /\ SimulatorStep(result)
          /\ history' = Append(history, result)
          /\ Match(result)
    /\ UNCHANGED <<parameters, echoed>>
    /\ UNCHANGED saVars

\* Variant of Parameters: the parameters are moved out of the optimizer, which
\* is left with the default ones.
ParametersTaken ==
    /\ echoed' = Some(parameters)
    /\ parameters' = DefaultGaParameters
    /\ UNCHANGED <<all_time_best, population, evaluated, simCalls, history, returned>>
    /\ UNCHANGED saVars

\* LayoutOptimizer::parameters, lines 242-244.
Parameters ==
    /\ echoed' = Some(parameters)
    /\ UNCHANGED <<all_time_best, population, evaluated, simCalls, history, returned,
                   parameters>>
    /\ UNCHANGED saVars

---------------------------------------------------------------------------
(* sa_optimize and its observer.                                           *)

NoSaRun ==
    /\ saPc = "idle"
    /\ saParameters = None
    /\ saIter = 0
    /\ saNewBest = 0
    /\ saObserved = None
    /\ notifications = <<>>
    /\ saResult = None

\* sa_optimization::Parameters, as far as sa_optimize reads them.
SaParameterSets == [max_iters : 0..MaxIters, init_temp : 0..1]

\* serde_yaml::from_str(optimization_params_str), line 334: the text parses or not.
ParseResults ==
    {[tag |-> "Err"]} \cup {[tag |-> "Ok", value |-> p] : p \in SaParameterSets}

\* Parameters::correct_init_temp, line 338: a temperature that is not positive
\* is replaced by a positive one.
CorrectInitTemp(p) ==
    [p EXCEPT !.init_temp = IF p.init_temp <= 0 THEN 1 ELSE p.init_temp]

\* One call of a host callback.
Call(callback, args) == [callback |-> callback, args |-> args]

\* Variant of InitialNotifications: the progress call comes before the budget call.
InitialNotificationsSwapped(params) ==
    <<Call("update_callback", <<InitialProgress>>),
      Call("max_iters_callback", <<params.max_iters>>)>>

\* Lines 341-345: the calls made before the observer is built.
InitialNotifications(params) ==
    <<Call("max_iters_callback", <<params.max_iters>>),
      Call("update_callback", <<InitialProgress>>)>>

\* sa_optimize, lines 334-355, for a parameters text that parses as one of
\* `results`: a text that does not parse panics at the unwrap of line 336.
Begin(results) ==
    /\ saPc = "idle"
    /\ \E parsed \in results :
          IF parsed.tag = "Err"
          THEN /\ saPc' = "panicked"
               /\ UNCHANGED <<saParameters, notifications>>
          ELSE /\ saPc' = "running"
               /\ saParameters' = Some(CorrectInitTemp(parsed.value))
               /\ notifications' =
                     notifications \o InitialNotifications(CorrectInitTemp(parsed.value))
    /\ UNCHANGED <<saIter, saNewBest, saObserved, saResult>>
    /\ UNCHANGED gaVars

\* Variant of SaOptimizeBegin: the initial progress call is made before the
\* parameters text is parsed.
SaOptimizeBeginNotifiesFirst ==
    /\ saPc = "idle"
    /\ \E parsed \in ParseResults :
          IF parsed.tag = "Err"
          THEN /\ saPc' = "panicked"
               /\ notifications' =
                     notifications \o <<Call("update_callback", <<InitialProgress>>)>>
               /\ UNCHANGED saParameters
          ELSE /\ saPc' = "running"
               /\ saParameters' = Some(CorrectInitTemp(parsed.value))
               /\ notifications' =
                     notifications \o InitialNotifications(CorrectInitTemp(parsed.value))
    /\ UNCHANGED <<saIter, saNewBest, saObserved, saResult>>
    /\ UNCHANGED gaVars

\* sa_optimize, lines 334-355: up to the start of the search.
SaOptimizeBegin == Begin(ParseResults)

\* The states of the annealing run the observer can be shown at iteration `iter`.
IterStates(iter) ==
    [iter : {iter}, is_best : BOOLEAN, param : Genomes, cost : 0..MaxCost]

\* Variant of ProgressCalls: the throttle without its test for iteration 0.
ProgressCallsFromZero(state) ==
    IF state.iter % ProgressEvery = 0
    THEN <<Call("update_callback", <<state.iter>>)>>
    ELSE <<>>

\* Lines 308-312: the throttled progress call.
ProgressCalls(state) ==
    IF (state.iter % ProgressEvery = 0) /\ (state.iter > 0)
    THEN <<Call("update_callback", <<state.iter>>)>>
    ELSE <<>>

\* Variant of NewBestCalls: the new-best call made under the progress throttle.
NewBestCallsThrottled(state) ==
    IF state.is_best /\ (state.iter % ProgressEvery = 0) /\ (state.iter > 0)
    THEN <<Call("new_best_callback", <<GenerateString(state.param), state.cost>>)>>
    ELSE <<>>

\* Lines 313-318: the new-best call.
NewBestCalls(state) ==
    IF state.is_best
    THEN <<Call("new_best_callback", <<GenerateString(state.param), state.cost>>)>>
    ELSE <<>>

\* The callbacks observe_iter calls for `state`; each of them may fail.
CalledCallbacks(state) ==
    {c \in {"update_callback", "new_best_callback"} :
        \E i \in DOMAIN (ProgressCalls(state) \o NewBestCalls(state)) :
            (ProgressCalls(state) \o NewBestCalls(state))[i].callback = c}

\* Variant of ObserveIterResult: a callback's failure is passed on (with ?).
ObserveIterResultPropagated(failed) == IF failed = {} THEN "Ok" ELSE "Err"

\* Lines 311, 317 and 319: what observe_iter returns when the callbacks in
\* `failed` have failed: their results are dropped (let _ =) and Ok(()) returned.
ObserveIterResult(failed) == "Ok"

\* SaObserver::observe_iter, lines 302-320, called with `state` while the
\* callbacks in `failed` fail.  Of a state that is no new best only the
\* iteration index is kept in saObserved.
ObserveIter(state, failed) ==
    /\ notifications' = notifications \o ProgressCalls(state) \o NewBestCalls(state)
    /\ saObserved' =
          Some([iter    |-> state.iter,
                is_best |-> state.is_best,
                best    |-> IF state.is_best
                            THEN Some([param |-> state.param, cost |-> state.cost])
                            ELSE None,
                failed  |-> failed,
                result  |-> ObserveIterResult(failed)])

\* One iteration of the search started at line 357, its state one of `states`:
\* the solver computes the state, the observer is shown it, and the iteration
\* counter advances; an error from the observer would end the search.
Iterate(states) ==
    /\ saPc = "running"
    /\ saIter < saParameters.value.max_iters
    /\ \E state \in states :
          \E failed \in SUBSET CalledCallbacks(state) :
              /\ state.is_best => saNewBest < MaxNewBest
              /\ ObserveIter(state, failed)
              /\ saNewBest' = IF state.is_best THEN saNewBest + 1 ELSE saNewBest
    /\ IF saObserved'.value.result = "Ok"
       THEN saIter' = saIter + 1 /\ saPc' = saPc
       ELSE saIter' = saIter /\ saPc' = "aborted"
    /\ UNCHANGED <<saParameters, saResult>>
    /\ UNCHANGED gaVars

SaIterate == Iterate(IterStates(saIter))

\* Lines 357-369: the search has used its iteration budget and sa_optimize
\* returns the text of the layout it ended with.
SaOptimizeEnd ==
    /\ saPc = "running"
    /\ saIter = saParameters.value.max_iters
    /\ saPc' = "done"
    /\ \E g \in Genomes : saResult' = Some(AsText(GenerateLayout(g)))
    /\ UNCHANGED <<saParameters, saIter, saNewBest, saObserved, notifications>>
    /\ UNCHANGED gaVars

\* A run with an iteration budget of 100.
ScenarioParseResults ==
    {[tag |-> "Ok", value |-> p] : p \in [max_iters : {100}, init_temp : 0..1]}

SaOptimizeBeginScenario == Begin(ScenarioParseResults)

\* The states of the long run: new-best states are drawn among its first
\* iterations only.
ScenarioIterStates(iter) ==
    {state \in IterStates(iter) : state.is_best => iter < NewBestWindow}

SaIterateScenario == Iterate(ScenarioIterStates(saIter))

---------------------------------------------------------------------------
(* Specifications.                                                         *)

\* The genetic optimizer: a constructed LayoutOptimizer, stepped by its caller.
Init == NewLayoutOptimizer /\ NoSaRun

Next == Step

Spec == Init /\ [][Next]_vars

\* The genetic optimizer, its caller also reading the parameters back.
NextParameters == Step \/ Parameters

SpecParameters == Init /\ [][NextParameters]_vars

\* One sa_optimize run.
InitSA == NoLayoutOptimizer /\ NoSaRun

NextSA == SaOptimizeBegin \/ SaIterate \/ SaOptimizeEnd

SpecSA == InitSA /\ [][NextSA]_vars

\* One sa_optimize run with an iteration budget of 100.
NextSA100 == SaOptimizeBeginScenario \/ SaIterateScenario \/ SaOptimizeEnd

SpecSA100 == InitSA /\ [][NextSA100]_vars

---------------------------------------------------------------------------
(* Properties of LayoutOptimizer, checked under Spec.                      *)

Last(seq) == seq[Len(seq)]

StepMade == history' # history

\* The tags of the results the step() calls got so far.
Outcomes == {history[i].tag : i \in DOMAIN history}

\* C1: the fitness held in all_time_best never decreases from one step() call
\* to the next, whatever the simulator reports, also when a generation's best
\* is lower than an earlier one's.
C1_BestFitnessMonotone ==
    [][all_time_best # None =>
          /\ all_time_best' # None
          /\ all_time_best'.value[1] >= all_time_best.value[1]]_vars

\* A generation whose best is lower than the record held from an earlier one.
C1_RegressedGeneration ==
    /\ Len(history) >= 2
    /\ Last(history).tag = "Intermediate"
    /\ Last(history).best_solution.fitness < all_time_best.value[1]

\* C2: on an Intermediate outcome the held pair becomes the generation's best
\* when no pair is held or the generation's fitness is strictly greater than the
\* held one, and otherwise (equal or lower) stays exactly as it was.
C2_ReplacedIffStrictlyBetter ==
    [][(StepMade /\ Last(history').tag = "Intermediate") =>
          LET best == Last(history').best_solution IN
          IF all_time_best = None \/ best.fitness > all_time_best.value[1]
          THEN all_time_best' = Some(<<best.fitness, best.genome>>)
          ELSE all_time_best' = all_time_best]_vars

\* A generation whose best ties the held fitness with another genome, the held
\* genome being kept.
C2_TieKeepsEarliest ==
    /\ Len(history) >= 2
    /\ Last(history).tag = "Intermediate"
    /\ Last(history).best_solution.fitness = all_time_best.value[1]
    /\ Last(history).best_solution.genome # all_time_best.value[2]
    /\ history[1].tag = "Intermediate"
    /\ history[1].best_solution.genome = all_time_best.value[2]

\* A step() call has got Final or an error from the simulator.
Terminated == Outcomes \cap {"Final", "Err"} # {}

\* C3: once a step() call has produced Final or a failure, every later step()
\* call fails with an already-terminated error and leaves the simulator alone.
C3_LaterStepsRejected ==
    [][(Terminated /\ StepMade) =>
          /\ returned' = [tag |-> "Err", value |-> "AlreadyTerminated"]
          /\ simCalls' = simCalls]_vars

\* C4, as claimed: when the simulator reports Final while a best is held, step()
\* returns the evaluation of the all-time-best layout.
C4_FinalReportsBest ==
    (history # <<>> /\ Last(history).tag = "Final" /\ all_time_best # None) =>
        returned =
            [tag   |-> "Ok",
             value |-> Some(LayoutEvaluationOf(GenerateLayout(all_time_best.value[2])))]

\* C4, amended: when the simulator reports Final, step() returns Ok with no
\* solution in it (None), whether or not a best is held.
C4_FinalReturnsNone ==
    (history # <<>> /\ Last(history).tag = "Final") =>
        returned = [tag |-> "Ok", value |-> None]

\* Final reported while a best is held from an earlier generation.
C4_FinalWithBestHeld ==
    /\ history # <<>>
    /\ Last(history).tag = "Final"
    /\ all_time_best # None
    /\ returned.tag = "Ok"

\* C5: a step() call whose simulator step fails or reports Final leaves
\* all_time_best exactly as it was.
C5_FailureKeepsBest ==
    [][(StepMade /\ Last(history').tag \in {"Final", "Err"}) =>
          all_time_best' = all_time_best]_vars

\* A failed step() after a best was found, the best still being held.
C5_FailedWithBestHeld ==
    /\ Len(history) >= 2
    /\ Last(history).tag = "Err"
    /\ returned.tag = "Err"
    /\ history[1].tag = "Intermediate"
    /\ all_time_best = Some(<<history[1].best_solution.fitness,
                              history[1].best_solution.genome>>)

\* C6: the best record is empty from construction until the first Intermediate
\* outcome, and never empty after it, whatever outcomes follow.
C6_EmptyUntilFirstIntermediate ==
    (all_time_best = None) <=> ("Intermediate" \notin Outcomes)

\* An Intermediate outcome followed by Final and by a failure, the record held.
C6_HeldThroughFinalAndFailure ==
    /\ Len(history) >= 3
    /\ history[1].tag = "Intermediate"
    /\ {history[2].tag, history[3].tag} = {"Final", "Err"}
    /\ all_time_best # None

\* C7: each step() call steps the simulator exactly once and returns to the
\* caller, with a value or an error, whatever the outcome.
C7_OneGenerationPerStep ==
    [][StepMade =>
          /\ Len(history') = Len(history) + 1
          /\ simCalls' = simCalls + 1
          /\ returned'.tag \in {"Ok", "Err"}]_vars

\* Three step() calls that met the three outcomes.
C7_AllOutcomesStepped ==
    /\ Len(history) = 3
    /\ simCalls = 3
    /\ Outcomes = {"Intermediate", "Final", "Err"}

\* C8: after a first step() that yields Intermediate, the all-time-best fitness
\* is the maximum fitness among the evaluated members of the seed population.
C8_FirstBestIsSeedMaximum ==
    (Len(history) = 1 /\ history[1].tag = "Intermediate") =>
        /\ all_time_best # None
        /\ evaluated # <<>>
        /\ all_time_best.value[1] = PopulationMax(evaluated)
        /\ \A i \in DOMAIN evaluated : evaluated[i].fitness <= all_time_best.value[1]

\* A first Intermediate step over a seed population of unequal fitness.
C8_FirstStepOverUnequalSeed ==
    /\ Len(history) = 1
    /\ history[1].tag = "Intermediate"
    /\ \E i \in DOMAIN evaluated : evaluated[i].fitness < all_time_best.value[1]
    /\ all_time_best.value[1] > 0

\* C9: every Intermediate result returned by step() is the layout and the
\* evaluation generated from the all-time-best permutation held after the
\* step's update, not from the generation's best.
C9_IntermediateReportsHeldBest ==
    (history # <<>> /\ Last(history).tag = "Intermediate") =>
        returned =
            [tag   |-> "Ok",
             value |-> Some(LayoutEvaluationOf(GenerateLayout(all_time_best.value[2])))]

\* A regressed generation with another genome: the caller reads the earlier layout.
C9_RegressionReadsEarlierLayout ==
    /\ Len(history) >= 2
    /\ Last(history).tag = "Intermediate"
    /\ Last(history).best_solution.fitness < all_time_best.value[1]
    /\ Last(history).best_solution.genome # all_time_best.value[2]
    /\ returned.tag = "Ok"
    /\ returned.value.value.layout = GenerateString(all_time_best.value[2])
    /\ returned.value.value.layout # GenerateString(Last(history).best_solution.genome)

\* The step() calls so far that got an Intermediate result.
IntermediateSteps == {i \in DOMAIN history : history[i].tag = "Intermediate"}

\* C17: a held record is the fitness and the genome of one generation's best
\* solution: the fitness is the highest generation-best fitness of all
\* Intermediate steps so far, and the genome is that of the first step that
\* reached this fitness.
C17_BestIsFirstMaximumSeen ==
    all_time_best # None =>
        /\ IntermediateSteps # {}
        /\ LET top == MaxOf({history[i].best_solution.fitness : i \in IntermediateSteps})
               first == CHOOSE i \in IntermediateSteps :
                            /\ history[i].best_solution.fitness = top
                            /\ \A j \in IntermediateSteps :
                                  j < i => history[j].best_solution.fitness < top
           IN  all_time_best = Some(<<top, history[first].best_solution.genome>>)

\* A lower generation, then the highest fitness reached twice with two genomes:
\* the record holds the pair of the first of the two.
C17_MaximumReachedTwice ==
    /\ Len(history) = 3
    /\ IntermediateSteps = {1, 2, 3}
    /\ history[1].best_solution.fitness < history[2].best_solution.fitness
    /\ history[3].best_solution.fitness = history[2].best_solution.fitness
    /\ history[3].best_solution.genome # history[2].best_solution.genome
    /\ all_time_best.value[2] = history[2].best_solution.genome

\* C14: parameters() changes nothing in the optimizer (simulator, best record,
\* parameters) and returns, after any step() calls, the parameters the
\* optimizer was constructed with, which no call changes.
C14_ParametersReadOnlyEcho ==
    [][/\ parameters' = parameters
       /\ echoed' # echoed =>
             /\ echoed' = Some(parameters)
             /\ UNCHANGED <<all_time_best, population, evaluated, simCalls,
                            history, returned>>]_vars

\* parameters() has returned the constructed parameters, other than the default
\* ones, on an optimizer that was stepped and holds a best.
C14_EchoedAroundSteps ==
    /\ echoed = Some(parameters)
    /\ parameters # DefaultGaParameters
    /\ Len(history) >= 2
    /\ all_time_best # None

---------------------------------------------------------------------------
(* Properties of sa_optimize, checked under SpecSA.                        *)

\* The places in `log` of the calls of `callback`.
CallsIn(log, callback) == {i \in DOMAIN log : log[i].callback = callback}

\* The places in the notifications of the calls of `callback`.
CallsOf(callback) == CallsIn(notifications, callback)

\* C10: in a run the iteration budget is notified exactly once, with max_iters,
\* before the search starts and before any progress or new-best notification.
C10_BudgetNotifiedOnceFirst ==
    /\ saPc \in {"idle", "panicked"} => notifications = <<>>
    /\ saPc \in {"running", "done"} =>
          /\ CallsOf("max_iters_callback") = {1}
          /\ notifications[1].args = <<saParameters.value.max_iters>>

\* A finished run that made throttled progress calls and a new-best call.
C10_RunWithProgressAndNewBest ==
    /\ saPc = "done"
    /\ saParameters.value.max_iters > ProgressEvery
    /\ \E i \in CallsOf("update_callback") : notifications[i].args = <<ProgressEvery>>
    /\ CallsOf("new_best_callback") # {}
    /\ CallsOf("max_iters_callback") = {1}

\* The iteration indices the throttle lets through, among those observed so far.
ThrottledIterations ==
    {k \in 0..(saIter - 1) : k % ProgressEvery = 0 /\ k > 0}

\* C11, as claimed: every call of the update callback carries a positive
\* multiple of 10.
C11_ProgressOnlyMultiplesOfTen ==
    \A i \in CallsOf("update_callback") :
        /\ notifications[i].args[1] > 0
        /\ notifications[i].args[1] % ProgressEvery = 0

\* C11, amended: sa_optimize calls the update callback once with 1 before the
\* search starts; every other call of it comes from the observer and carries a
\* positive multiple of 10, one call for each such iteration observed.
C11_ProgressOneThenMultiplesOfTen ==
    saPc \in {"running", "done"} =>
        /\ notifications[2] = Call("update_callback", <<InitialProgress>>)
        /\ \A i \in CallsOf("update_callback") \ {2} :
              notifications[i].args[1] \in ThrottledIterations
        /\ \A k \in ThrottledIterations :
              Cardinality({i \in CallsOf("update_callback") \ {2} :
                              notifications[i].args = <<k>>}) = 1

\* A run past iteration 10: the update callback was called with 1 and with 10.
C11_ProgressOneAndTen ==
    /\ saIter > ProgressEvery
    /\ {notifications[i].args : i \in CallsOf("update_callback")}
          = {<<InitialProgress>>, <<ProgressEvery>>}

\* C13: the new-best call does not depend on the progress throttle: an observed
\* state that is a new best makes exactly one call of the new-best callback,
\* with the layout text generated from the state's permutation and the state's
\* cost, at any iteration index; an observed state that is no new best makes none.
C13_NewBestCalledOncePerBest ==
    [][saObserved' # saObserved =>
          LET observed == saObserved'.value
              before == CallsIn(notifications, "new_best_callback")
              after == CallsIn(notifications', "new_best_callback")
          IN  IF observed.is_best
              THEN /\ after = before \cup {Len(notifications')}
                   /\ Len(notifications') \notin before
                   /\ Last(notifications') =
                         Call("new_best_callback",
                              <<GenerateString(observed.best.value.param),
                                observed.best.value.cost>>)
              ELSE after = before]_vars

\* A new best observed at an iteration the throttle does not let through.
C13_NewBestOffTheThrottle ==
    /\ saObserved # None
    /\ saObserved.value.is_best
    /\ saObserved.value.iter % ProgressEvery # 0
    /\ Last(notifications).callback = "new_best_callback"
    /\ Last(notifications).args[2] = saObserved.value.best.value.cost

\* C15: when the parameters text is malformed sa_optimize fails before the run
\* starts and for good: no budget, progress or new-best notification is made,
\* no iteration is run or observed, nothing is returned, nothing follows.
C15_MalformedParametersFailFirst ==
    saPc = "panicked" =>
        /\ notifications = <<>>
        /\ saParameters = None
        /\ saIter = 0
        /\ saObserved = None
        /\ saResult = None
        /\ ~ ENABLED NextSA

\* sa_optimize has failed on a parameters text that does not parse.
C15_PanickedOnParse ==
    /\ saPc = "panicked"
    /\ saParameters = None
    /\ CallsOf("max_iters_callback") = {}

\* C16: observe_iter returns success for every state it is shown, also when
\* the progress callback or the new-best callback fails, so the search is
\* never ended by the observer and goes on to the next iteration.
C16_ObserverNeverStopsSearch ==
    /\ saPc # "aborted"
    /\ saObserved # None =>
          /\ saObserved.value.result = "Ok"
          /\ saIter = saObserved.value.iter + 1
          /\ saPc \in {"running", "done"}

\* A run that ended normally although both callbacks failed in its last iteration.
C16_DoneAfterFailedCallbacks ==
    /\ saPc = "done"
    /\ saObserved # None
    /\ saObserved.value.failed = {"update_callback", "new_best_callback"}
    /\ saResult # None

---------------------------------------------------------------------------
(* Properties of the run with a budget of 100, checked under SpecSA100.    *)

\* C12: in a run with an iteration budget of 100 there is exactly one budget
\* notification and there are at most 10 progress notifications in all.
C12_Budget100AtMostTenProgress ==
    (saPc \in {"running", "done"} /\ saParameters.value.max_iters = 100) =>
        /\ Cardinality(CallsOf("max_iters_callback")) = 1
        /\ Cardinality(CallsOf("update_callback")) <= 10

\* The run with a budget of 100 has ended after 100 observed iterations and 10
\* calls of the update callback.
C12_Budget100RunDone ==
    /\ saPc = "done"
    /\ saParameters.value.max_iters = 100
    /\ saIter = 100
    /\ Cardinality(CallsOf("max_iters_callback")) = 1
    /\ Cardinality(CallsOf("update_callback")) = 10

====
